---- MODULE Spec2Model ----
(***************************************************************************)
(* A model of the Quran corpus pipeline: the text normalizer and the Abjad *)
(* scorer (build_universal_dataframe.py, detect_primes.py), the builder of *)
(* the universal table (build_dataframe) and the letter / word frequency   *)
(* reports that read it.                                                   *)
(*                                                                         *)
(* A character is its Unicode codepoint, a Python str is a sequence of     *)
(* codepoints.  A Python value that may or may not be a str is a record    *)
(* [tag, s]: tag = "str" carries the characters in s, any other tag is a   *)
(* non-string value (None, a number) or a raised exception.  An optional   *)
(* value is <<>> (None) or <<v>>.                                          *)
(***************************************************************************)
EXTENDS Integers, Sequences, FiniteSets, TLC

\* ------------------------------------------------------------- bounds
MaxTextLen == 2
\* the chapters of the loop (114 in the code)
NumSurahs == 2
\* the keys of one chapter's verse map
MaxKeys == 2
\* the entries of one descriptor's 'juz' list
MaxJuz == 2
\* the verse texts of the analysed chapter and their characters in all
MaxRecords == 2
MaxChars == 4

\* ------------------------------------------------- values and helpers
Str(s) == [tag |-> "str", s |-> s]
PyNone == [tag |-> "None", s |-> <<>>]
PyInt == [tag |-> "int", s |-> <<>>]
TypeError == [tag |-> "TypeError", s |-> <<>>]

None == <<>>
Some(v) == <<v>>

SeqsUpTo(S, n) == UNION {[1..k -> S] : k \in 0..n}

\* ------------------------------------------------ the Abjad table
ABJAD_MAP ==
    (1575 :> 1) @@ (1571 :> 1) @@ (1573 :> 1) @@ (1570 :> 1) @@ (1649 :> 1) @@ (1569 :> 1) @@
    (1576 :> 2) @@ (1580 :> 3) @@ (1583 :> 4) @@ (1607 :> 5) @@ (1577 :> 5) @@ (1608 :> 6) @@
    (1586 :> 7) @@ (1581 :> 8) @@ (1591 :> 9) @@ (1610 :> 10) @@ (1609 :> 10) @@ (1603 :> 20) @@
    (1604 :> 30) @@ (1605 :> 40) @@ (1606 :> 50) @@ (1587 :> 60) @@ (1593 :> 70) @@ (1601 :> 80) @@
    (1589 :> 90) @@ (1602 :> 100) @@ (1585 :> 200) @@ (1588 :> 300) @@ (1578 :> 400) @@ (1579 :> 500) @@
    (1582 :> 600) @@ (1584 :> 700) @@ (1590 :> 800) @@ (1592 :> 900) @@ (1594 :> 1000)

\* ------------------------------------------------ normalize_text
\* The character classes and replacements of the four re.sub calls.
\* [U+064B-U+065F U+0670 U+0640] -> ''
HARAKAT_TATWEEL_OffByOne == (1610..1631) \cup {1648, 1600}
HARAKAT_TATWEEL == (1611..1631) \cup {1648, 1600}

\* [U+0623 U+0625 U+0622 U+0671] -> U+0627
ALEF_FORMS == {1571, 1573, 1570, 1649}
ALEF_TARGET == <<1575>>

\* U+0649 -> U+064A
YA_FORMS == {1609}
YA_TARGET == <<1610>>

\* U+0629 -> U+0647
TA_MARBUTA_FORMS == {1577}
\* the mapping to Ta (U+062A) instead of Ha
TA_MARBUTA_TARGET_Ta == <<1578>>
TA_MARBUTA_TARGET == <<1607>>

\* re.sub with count=1: only the first match is replaced.
RECURSIVE SubFirst(_, _, _)
SubFirst(class, repl, s) ==
    IF s = <<>> THEN <<>>
    ELSE IF Head(s) \in class THEN repl \o Tail(s)
    ELSE <<Head(s)>> \o SubFirst(class, repl, Tail(s))

\* re.sub(class, repl, s) on the characters of a str: every character of the
\* class is replaced by repl, every other character is copied.
RECURSIVE SubAll(_, _, _)
SubAll(class, repl, s) ==
    IF s = <<>> THEN <<>>
    ELSE (IF Head(s) \in class THEN repl ELSE <<Head(s)>>)
             \o SubAll(class, repl, Tail(s))

\* re.sub on a Python value: a non-str argument raises TypeError, and an
\* exception raised earlier in the function propagates.
re_sub(class, repl, v) ==
    IF v.tag = "str" THEN Str(SubAll(class, repl, v.s)) ELSE TypeError

normalize_text_NoGuard(text) ==
    LET t1 == re_sub(HARAKAT_TATWEEL, <<>>, text)
        t2 == re_sub(ALEF_FORMS, ALEF_TARGET, t1)
        t3 == re_sub(YA_FORMS, YA_TARGET, t2)
        t4 == re_sub(TA_MARBUTA_FORMS, TA_MARBUTA_TARGET, t3)
    IN  t4

normalize_text(text) ==
    IF text.tag # "str" THEN Str(<<>>)
    ELSE LET t1 == re_sub(HARAKAT_TATWEEL, <<>>, text)
             t2 == re_sub(ALEF_FORMS, ALEF_TARGET, t1)
             t3 == re_sub(YA_FORMS, YA_TARGET, t2)
             t4 == re_sub(TA_MARBUTA_FORMS, TA_MARBUTA_TARGET, t3)
         IN  t4

\* ------------------------------------------------ calculate_abjad_value
RECURSIVE calculate_abjad_value(_)
calculate_abjad_value(s) ==
    IF s = <<>> THEN 0
    ELSE (IF Head(s) \in DOMAIN ABJAD_MAP THEN ABJAD_MAP[Head(s)] ELSE 0)
             + calculate_abjad_value(Tail(s))

\* ------------------------------------------------ inputs
\* Every key of ABJAD_MAP, the two hamza carriers outside it, every stripped
\* codepoint, the neighbours of the stripped range (U+064A is a key, U+0660),
\* another Arabic letter (U+063B), a space and a full stop.
Alphabet ==
    DOMAIN ABJAD_MAP \cup {1572, 1574} \cup (1611..1631) \cup {1648, 1600}
        \cup {1632, 1595, 32, 46}

Texts == SeqsUpTo(Alphabet, MaxTextLen)

PyValues == {Str(s) : s \in Texts} \cup {PyNone, PyInt}

\* ------------------------------------------------ build_dataframe: helpers
\* A key of a verse map is a sequence of tokens: the literal 'verse_' is one
\* token, every other token is one character.
DigitVal ==
    ("0" :> 0) @@ ("1" :> 1) @@ ("2" :> 2) @@ ("3" :> 3) @@ ("4" :> 4) @@
    ("5" :> 5) @@ ("6" :> 6) @@ ("7" :> 7) @@ ("8" :> 8) @@ ("9" :> 9)

\* v_key.startswith('verse_')
startswith_verse(v_key) == Len(v_key) > 0 /\ v_key[1] = "verse_"

\* v_key.replace('verse_', ''): every occurrence is removed
IsNotVerseToken(t) == t # "verse_"
replace_verse(v_key) == SelectSeq(v_key, IsNotVerseToken)

\* int(s) raises ValueError unless s is a non-empty run of decimal digits
int_raises(s) == s = <<>> \/ \E k \in 1..Len(s) : s[k] \notin DOMAIN DigitVal

RECURSIVE int_value(_)
int_value(s) ==
    IF s = <<>> THEN 0
    ELSE 10 * int_value(SubSeq(s, 1, Len(s) - 1)) + DigitVal[s[Len(s)]]

\* A descriptor of surah.json: each field is None when the key is missing.
\* meta_dict.get(index_str, {}) of a chapter without descriptor is EmptyMeta.
EmptyMeta ==
    [place |-> None, type |-> None, titleAr |-> None, pages |-> None, juz |-> None]

\* One entry of a descriptor's 'juz' list:
\* {"index": "01", "verse": {"start": "verse_1", "end": "verse_7"}}
JuzEntry(index, start, end) ==
    [index |-> index, verse |-> [start |-> start, end |-> end]]

\* The scan of smeta['juz'] that keeps the last matching entry (no break).
RECURSIVE juz_scan_NoBreak(_, _)
juz_scan_NoBreak(juz, verse_num) ==
    IF juz = <<>> THEN None
    ELSE LET j == Head(juz)
             j_idx == int_value(j.index)
             v_start == int_value(replace_verse(j.verse.start))
             v_end == int_value(replace_verse(j.verse.end))
             later == juz_scan_NoBreak(Tail(juz), verse_num)
         IN  IF later # None THEN later
             ELSE IF v_start <= verse_num /\ verse_num <= v_end THEN Some(j_idx)
             ELSE None

\* for j in smeta['juz']: ... if v_start <= verse_num <= v_end: juz_num = j_idx; break
RECURSIVE juz_scan(_, _)
juz_scan(juz, verse_num) ==
    IF juz = <<>> THEN None
    ELSE LET j == Head(juz)
             j_idx == int_value(j.index)
             v_start == int_value(replace_verse(j.verse.start))
             v_end == int_value(replace_verse(j.verse.end))
         IN  IF v_start <= verse_num /\ verse_num <= v_end THEN Some(j_idx)
             ELSE juz_scan(Tail(juz), verse_num)

\* juz_num = None; if 'juz' in smeta: <scan>
juz_lookup(meta, verse_num) ==
    IF meta.juz = None THEN None ELSE juz_scan(meta.juz[1], verse_num)

\* The row of one verse, a missing place or type filled with a default.
make_row_Defaults(idx, name_en, meta, verse_num, text) ==
    [surah_index |-> idx,
     surah_name_en |-> name_en,
     surah_name_ar |-> meta.titleAr,
     verse_index |-> verse_num,
     text_rasm |-> text.s,
     text_normalized |-> normalize_text(text).s,
     abjad_value |-> calculate_abjad_value(text.s),
     juz_index |-> juz_lookup(meta, verse_num),
     revelation_place |-> IF meta.place = None THEN Some("Mecca") ELSE meta.place,
     revelation_type |-> IF meta.type = None THEN Some("Makkiyah") ELSE meta.type,
     page_number |-> meta.pages]

\* The row of one verse.
make_row(idx, name_en, meta, verse_num, text) ==
    [surah_index |-> idx,
     surah_name_en |-> name_en,
     surah_name_ar |-> meta.titleAr,
     verse_index |-> verse_num,
     text_rasm |-> text.s,
     text_normalized |-> normalize_text(text).s,
     abjad_value |-> calculate_abjad_value(text.s),
     juz_index |-> juz_lookup(meta, verse_num),
     revelation_place |-> meta.place,
     revelation_type |-> meta.type,
     page_number |-> meta.pages]

\* df.sort_values(by=['surah_index', 'verse_index']): a stable sort on the
\* pair, rows with equal pairs keep their order.
RowLE(a, b) ==
    \/ a.surah_index < b.surah_index
    \/ a.surah_index = b.surah_index /\ a.verse_index <= b.verse_index

RECURSIVE insert_row(_, _)
insert_row(sorted, r) ==
    IF sorted = <<>> THEN <<r>>
    ELSE LET last == sorted[Len(sorted)]
         IN  IF RowLE(last, r) THEN Append(sorted, r)
             ELSE Append(insert_row(SubSeq(sorted, 1, Len(sorted) - 1), r), last)

RECURSIVE sort_values(_)
sort_values(rows) ==
    IF rows = <<>> THEN <<>>
    ELSE insert_row(sort_values(SubSeq(rows, 1, Len(rows) - 1)), rows[Len(rows)])

\* ------------------------------------------------ the analyzers: helpers
\* The characters str.split() and str.strip() treat as whitespace.
WHITESPACE ==
    (9..13) \cup (28..32) \cup {133, 160, 5760} \cup (8192..8202)
        \cup {8232, 8233, 8239, 8287, 12288}

\* text.split(): the maximal runs of non-whitespace characters, in order.
RECURSIVE split_from(_, _, _)
split_from(s, word, words) ==
    IF s = <<>> THEN (IF word = <<>> THEN words ELSE Append(words, word))
    ELSE IF Head(s) \in WHITESPACE
         THEN split_from(Tail(s), <<>>, IF word = <<>> THEN words ELSE Append(words, word))
         ELSE split_from(Tail(s), Append(word, Head(s)), words)

split(s) == split_from(s, <<>>, <<>>)

\* w.strip() is not empty
strip_nonempty(w) == \E k \in 1..Len(w) : w[k] \notin WHITESPACE

\* "".join(texts)
RECURSIVE join(_)
join(texts) == IF texts = <<>> THEN <<>> ELSE Head(texts) \o join(Tail(texts))

\* [x for x in s if x in allowed]
RECURSIVE filter_in(_, _)
filter_in(s, allowed) ==
    IF s = <<>> THEN <<>>
    ELSE (IF Head(s) \in allowed THEN <<Head(s)>> ELSE <<>>)
             \o filter_in(Tail(s), allowed)

\* Counter(items): one entry per distinct item, in the order of first
\* occurrence, with its number of occurrences.
RECURSIVE count_into(_, _)
count_into(counts, items) ==
    IF items = <<>> THEN counts
    ELSE LET x == Head(items)
             at == {k \in 1..Len(counts) : counts[k].key = x}
         IN  IF at = {}
             THEN count_into(Append(counts, [key |-> x, n |-> 1]), Tail(items))
             ELSE count_into([k \in 1..Len(counts) |->
                                 IF k \in at
                                 THEN [key |-> x, n |-> counts[k].n + 1]
                                 ELSE counts[k]],
                             Tail(items))

Counter(items) == count_into(<<>>, items)

\* {k: v for k, v in counts.items() if k in valid_chars}
RECURSIVE filter_keys(_, _)
filter_keys(counts, allowed) ==
    IF counts = <<>> THEN <<>>
    ELSE (IF Head(counts).key \in allowed THEN <<Head(counts)>> ELSE <<>>)
             \o filter_keys(Tail(counts), allowed)

\* sum(counts.values())
RECURSIVE sum_values(_)
sum_values(counts) ==
    IF counts = <<>> THEN 0 ELSE Head(counts).n + sum_values(Tail(counts))

\* An ascending stable sort by count, reversed: descending, but entries of
\* equal count come out in the reverse of their original order.
RECURSIVE insert_ascending(_, _)
insert_ascending(sorted, e) ==
    IF sorted = <<>> THEN <<e>>
    ELSE LET last == sorted[Len(sorted)]
         IN  IF last.n <= e.n THEN Append(sorted, e)
             ELSE Append(insert_ascending(SubSeq(sorted, 1, Len(sorted) - 1), e), last)

RECURSIVE sorted_ascending(_)
sorted_ascending(counts) ==
    IF counts = <<>> THEN <<>>
    ELSE insert_ascending(sorted_ascending(SubSeq(counts, 1, Len(counts) - 1)),
                          counts[Len(counts)])

sorted_ascending_reversed(counts) ==
    LET asc == sorted_ascending(counts)
    IN  [k \in 1..Len(asc) |-> asc[Len(asc) + 1 - k]]

\* sorted(counts.items(), key=lambda x: x[1], reverse=True): a stable sort,
\* descending by count, entries of equal count keep their original order.
RECURSIVE insert_descending(_, _)
insert_descending(sorted, e) ==
    IF sorted = <<>> THEN <<e>>
    ELSE LET last == sorted[Len(sorted)]
         IN  IF last.n >= e.n THEN Append(sorted, e)
             ELSE Append(insert_descending(SubSeq(sorted, 1, Len(sorted) - 1), e), last)

RECURSIVE sorted_reverse_loop(_)
sorted_reverse_loop(counts) ==
    IF counts = <<>> THEN <<>>
    ELSE insert_descending(sorted_reverse_loop(SubSeq(counts, 1, Len(counts) - 1)),
                           counts[Len(counts)])

sorted_reverse(counts) == sorted_reverse_loop(counts)

\* Counter.most_common() is sorted(self.items(), key=itemgetter(1), reverse=True)
most_common(counts) == sorted_reverse(counts)

\* (count / total) * 100 as the fraction num / den; den = 0 is the
\* ZeroDivisionError of a division by a zero total.
percentage(count, total) == [num |-> 100 * count, den |-> total]

\* (count / total_letters) * 100 if total_letters > 0 else 0
percentage_or_zero(count, total) ==
    IF total > 0 THEN percentage(count, total) ELSE [num |-> 0, den |-> 1]

\* valid_chars of analyze_surah and analyze_all_surahs
valid_chars ==
    {1575, 1576} \cup (1578..1594) \cup (1601..1608) \cup {1610}
        \cup {1569, 1572, 1574}

\* VALID_LETTERS of analyze_letters
VALID_LETTERS ==
    {1575, 1576} \cup (1578..1594) \cup (1601..1608) \cup {1610}
        \cup {1569, 1572, 1574, 1575, 1609, 1577}

\* l_count = sum(1 for c in norm_text if c in ABJAD_MAP)
l_count(norm) == Len(filter_in(norm, DOMAIN ABJAD_MAP))

\* w_count = len(norm_text.split())
w_count(norm) == Len(split(norm))

\* The tokens of the concatenated texts: "".join(texts).split()
tokenize_Joined(texts) == SelectSeq(split(join(texts)), strip_nonempty)

\* words = [w for w in text.split() if w.strip()]; all_words.extend(words)
RECURSIVE tokenize(_)
tokenize(texts) ==
    IF texts = <<>> THEN <<>>
    ELSE SelectSeq(split(Head(texts)), strip_nonempty) \o tokenize(Tail(texts))

\* The report of analyze_surah over the rows of one chapter.
surah_frequency(texts) ==
    LET all_text == join(texts)
        counts == Counter(all_text)
        filtered_counts == filter_keys(counts, valid_chars)
        total_letters == sum_values(filtered_counts)
        sorted_counts == sorted_reverse(filtered_counts)
    IN  [total |-> total_letters,
         entries |-> [k \in 1..Len(sorted_counts) |->
                         [key |-> sorted_counts[k].key, n |-> sorted_counts[k].n,
                          pct |-> percentage_or_zero(sorted_counts[k].n, total_letters)]]]

\* The report of analyze_letters.
letter_frequency(texts) ==
    LET all_text == join(texts)
        letters_only == filter_in(all_text, VALID_LETTERS)
        total_letters == Len(letters_only)
        counts == most_common(Counter(letters_only))
    IN  [total |-> total_letters,
         entries |-> [k \in 1..Len(counts) |->
                         [key |-> counts[k].key, n |-> counts[k].n,
                          pct |-> percentage(counts[k].n, total_letters)]]]

\* The report of a word count over the concatenated texts.
word_frequency_Joined(texts) ==
    LET all_words == tokenize_Joined(texts)
        total_words == Len(all_words)
        word_counts == most_common(Counter(all_words))
    IN  [total |-> total_words,
         entries |-> [k \in 1..Len(word_counts) |->
                         [key |-> word_counts[k].key, n |-> word_counts[k].n,
                          pct |-> percentage(word_counts[k].n, total_words)]]]

\* The report of analyze_words.
word_frequency(texts) ==
    LET all_words == tokenize(texts)
        total_words == Len(all_words)
        word_counts == most_common(Counter(all_words))
    IN  [total |-> total_words,
         entries |-> [k \in 1..Len(word_counts) |->
                         [key |-> word_counts[k].key, n |-> word_counts[k].n,
                          pct |-> percentage(word_counts[k].n, total_words)]]]

\* VALID_LETTERS of analyze_start_letters: the 28 letters
START_VALID_LETTERS ==
    {1575, 1576} \cup (1578..1594) \cup (1601..1608) \cup {1610}

\* first_char = word[0], kept when it is in VALID_LETTERS or is Hamza
RECURSIVE first_chars(_)
first_chars(words) ==
    IF words = <<>> THEN <<>>
    ELSE LET first_char == Head(words)[1]
         IN  (IF first_char \in START_VALID_LETTERS \/ first_char = 1569
              THEN <<first_char>> ELSE <<>>)
                 \o first_chars(Tail(words))

\* The report of analyze_start_letters.
start_letter_frequency(texts) ==
    LET start_letters == first_chars(tokenize(texts))
        total_starts == Len(start_letters)
        counts == most_common(Counter(start_letters))
    IN  [total |-> total_starts,
         entries |-> [k \in 1..Len(counts) |->
                         [key |-> counts[k].key, n |-> counts[k].n,
                          pct |-> percentage(counts[k].n, total_starts)]]]

NoReport == [total |-> 0, entries |-> <<>>]

\* ------------------------------------------------ is_prime
MaxN == 130

\* while i * i < n: a loop that stops one step early on a square
loop_continues_Strict(d, n) == d * d < n

\* while i * i <= n
loop_continues(d, n) == d * d <= n

\* if n % i == 0 or n % (i + 2) == 0: return False
loop_divides(d, n) == n % d = 0 \/ n % (d + 2) = 0

\* i = 5; while ...: ...; i += 6; return True
RECURSIVE is_prime_loop(_, _)
is_prime_loop(d, n) ==
    IF loop_continues(d, n)
    THEN IF loop_divides(d, n) THEN FALSE ELSE is_prime_loop(d + 6, n)
    ELSE TRUE

is_prime(n) ==
    IF n <= 1 THEN FALSE
    ELSE IF n <= 3 THEN TRUE
    ELSE IF n % 2 = 0 \/ n % 3 = 0 THEN FALSE
    ELSE is_prime_loop(5, n)

\* ------------------------------------------------ analyze_primes
Flag(test, name) == IF test THEN <<name>> ELSE <<>>

\* The four tests chained with elif: at most one flag per verse.
verse_primes_Exclusive(verse_num, w, l, a) ==
    IF is_prime(verse_num) THEN <<"verse_index">>
    ELSE IF is_prime(w) THEN <<"word_count">>
    ELSE IF is_prime(l) THEN <<"letter_count">>
    ELSE Flag(is_prime(a), "abjad_value")

\* verse_primes = []; if is_prime(verse_num): verse_primes.append("verse_index") ...
verse_primes(verse_num, w, l, a) ==
    Flag(is_prime(verse_num), "verse_index")
        \o Flag(is_prime(w), "word_count")
        \o Flag(is_prime(l), "letter_count")
        \o Flag(is_prime(a), "abjad_value")

\* surah_primes = []; if is_prime(surah_idx): surah_primes.append("surah_index") ...
surah_primes(idx, count, words, letters, abjad) ==
    Flag(is_prime(idx), "surah_index")
        \o Flag(is_prime(count), "verse_count")
        \o Flag(is_prime(words), "total_word_count")
        \o Flag(is_prime(letters), "total_letter_count")
        \o Flag(is_prime(abjad), "total_abjad_value")

HasFlags(v) == v.primes_found # <<>>

\* ------------------------------------------------ analyze_concepts
\* CONCEPT_MAP: the concepts in the order of the dict, each with its stems
CONCEPT_MAP ==
    <<[concept |-> "Mann", stems |-> <<<<1585, 1580, 1604>>, <<1585, 1580, 1575, 1604>>>>],
      [concept |-> "Frau", stems |-> <<<<1575, 1605, 1585, 1575, 1607>>, <<1606, 1587, 1575, 1569>>>>],
      [concept |-> "Kind", stems |-> <<<<1608, 1604, 1583>>, <<1575, 1608, 1604, 1575, 1583>>, <<1591, 1601, 1604>>, <<1575, 1591, 1601, 1575, 1604>>>>],
      [concept |-> "Erde", stems |-> <<<<1575, 1585, 1590>>>>],
      [concept |-> "Wasser", stems |-> <<<<1605, 1575, 1569>>>>],
      [concept |-> "Blut", stems |-> <<<<1583, 1605>>, <<1583, 1605, 1575, 1569>>>>],
      [concept |-> "Engel", stems |-> <<<<1605, 1604, 1603>>, <<1605, 1604, 1575, 1574, 1603, 1607>>, <<1605, 1604, 1574, 1603, 1607>>>>],
      [concept |-> "Teufel", stems |-> <<<<1588, 1610, 1591, 1606>>, <<1588, 1610, 1575, 1591, 1610, 1606>>, <<1575, 1576, 1604, 1610, 1587>>>>],
      [concept |-> "Allah", stems |-> <<<<1575, 1604, 1604, 1607>>>>],
      [concept |-> "Gebet", stems |-> <<<<1589, 1604, 1608, 1607>>, <<1589, 1604, 1575, 1607>>>>],
      [concept |-> "Zakat", stems |-> <<<<1586, 1603, 1608, 1607>>, <<1586, 1603, 1575, 1607>>>>],
      [concept |-> "Fasten", stems |-> <<<<1589, 1608, 1605>>, <<1589, 1610, 1575, 1605>>>>],
      [concept |-> "Krieg", stems |-> <<<<1581, 1585, 1576>>, <<1602, 1578, 1575, 1604>>>>],
      [concept |-> "Frieden", stems |-> <<<<1587, 1604, 1605>>, <<1587, 1604, 1575, 1605>>>>],
      [concept |-> "Tag", stems |-> <<<<1610, 1608, 1605>>, <<1575, 1610, 1575, 1605>>>>],
      [concept |-> "Monat", stems |-> <<<<1588, 1607, 1585>>, <<1575, 1588, 1607, 1585>>>>],
      [concept |-> "Jahr", stems |-> <<<<1587, 1606, 1607>>, <<1593, 1575, 1605>>, <<1587, 1606, 1610, 1606>>>>],
      [concept |-> "Himmel", stems |-> <<<<1587, 1605, 1575, 1569>>, <<1587, 1605, 1608, 1578>>>>],
      [concept |-> "Nacht", stems |-> <<<<1604, 1610, 1604>>, <<1575, 1604, 1610, 1604>>, <<1604, 1610, 1604, 1575>>>>]>>

\* The alternatives of PREFIX_PATTERN, in the order the pattern lists them
PREFIXES ==
    <<<<1608>>,
      <<1601>>,
      <<1576>>,
      <<1603>>,
      <<1604>>,
      <<1575, 1604>>,
      <<1608, 1575, 1604>>,
      <<1601, 1575, 1604>>,
      <<1576, 1575, 1604>>,
      <<1603, 1575, 1604>>,
      <<1604, 1604>>,
      <<1608, 1604, 1604>>,
      <<1578>>,
      <<1587>>,
      <<1608, 1587>>,
      <<1601, 1587>>>>

\* word[:len(p)] == p
startswith(word, p) == Len(p) <= Len(word) /\ SubSeq(word, 1, Len(p)) = p

drop(word, k) == SubSeq(word, k + 1, Len(word))

\* A pattern without the closing `$`: anything may follow the stem.
end_anchor_None(rest) == TRUE

\* `$`: the end of the word (a word of split() holds no newline)
end_anchor(rest) == rest = <<>>

\* (stem1|stem2|...)$ : the stems tried in order, the anchor after each
RECURSIVE match_stems(_, _)
match_stems(rest, stems) ==
    IF stems = <<>> THEN FALSE
    ELSE IF /\ startswith(rest, Head(stems))
            /\ end_anchor(drop(rest, Len(Head(stems))))
         THEN TRUE
         ELSE match_stems(rest, Tail(stems))

\* ^(?:p1|p2|...)? then the stems: each alternative in order, the matcher
\* backtracking to the next when the stems fail after it, and at last the
\* empty prefix
RECURSIVE match_prefixes(_, _, _)
match_prefixes(word, prefixes, stems) ==
    IF prefixes = <<>> THEN match_stems(word, stems)
    ELSE IF /\ startswith(word, Head(prefixes))
            /\ match_stems(drop(word, Len(Head(prefixes))), stems)
         THEN TRUE
         ELSE match_prefixes(word, Tail(prefixes), stems)

\* regex = re.compile(f"{PREFIX_PATTERN}({stems_pattern})$"); regex.match(word)
regex_match(word, stems) == match_prefixes(word, PREFIXES, stems)

\* for word in all_words: if match: count += 1; found_forms[word] += 1
RECURSIVE matched_words(_, _)
matched_words(words, stems) ==
    IF words = <<>> THEN <<>>
    ELSE (IF regex_match(Head(words), stems) THEN <<Head(words)>> ELSE <<>>)
             \o matched_words(Tail(words), stems)

scan_concept(words, entry) ==
    LET found == matched_words(words, entry.stems)
    IN  [concept |-> entry.concept, total |-> Len(found), forms |-> Counter(found)]

\* all_words.extend([w.strip() for w in text.split() if w.strip()])
flatten_words(texts) == tokenize(texts)

\* ------------------------------------------------ inputs of the analyzers
\* Ba, Alef with hamza above, Waw with hamza above, a space.
AnalyzeAlphabet == {1576, 1571, 1572, 32}

RECURSIVE sum_seq(_)
sum_seq(lens) == IF lens = <<>> THEN 0 ELSE Head(lens) + sum_seq(Tail(lens))

\* flat cut into consecutive pieces of the given lengths
RECURSIVE cut(_, _)
cut(flat, lens) ==
    IF lens = <<>> THEN <<>>
    ELSE <<SubSeq(flat, 1, Head(lens))>>
             \o cut(SubSeq(flat, Head(lens) + 1, Len(flat)), Tail(lens))

\* The verse texts of one chapter: up to MaxRecords texts of up to MaxChars
\* characters in all.
ChapterTexts ==
    UNION {UNION {{cut(flat, lens) :
                      lens \in {l \in [1..r -> 0..Len(flat)] : sum_seq(l) = Len(flat)}} :
                  r \in 1..MaxRecords} :
           flat \in SeqsUpTo(AnalyzeAlphabet, MaxChars)}
        \cup {<<>>}

\* ------------------------------------------------ inputs of the build
VerseKey(digits) == <<"verse_">> \o digits

\* index_str = f"{i:03d}", for the chapters of the model
index_str(n) == <<"0", "0", CHOOSE d \in DOMAIN DigitVal : DigitVal[d] = n>>

JuzEntries ==
    {JuzEntry(ix, VerseKey(<<a>>), VerseKey(<<b>>)) :
        ix \in {<<"0", "1">>, <<"0", "2">>}, a \in {"1", "2"}, b \in {"1", "2"}}

FullMeta ==
    [place |-> Some("Mecca"), type |-> Some("Makkiyah"),
     titleAr |-> Some("titleAr"), pages |-> Some("1"),
     juz |-> Some(<<JuzEntry(<<"0", "1">>, VerseKey(<<"1">>), VerseKey(<<"1">>))>>)]

PartialMeta ==
    [place |-> None, type |-> None,
     titleAr |-> Some("titleAr"), pages |-> Some("1"), juz |-> None]

\* What a run may find on disk: which surah_{i}.json may exist or be absent,
\* the values of a file's 'index' and 'name', the keys and texts of its
\* 'verse' map, the descriptor surah.json holds for a chapter, and whether
\* every descriptor of surah.json has an 'index'.
NoCorpus ==
    [exists |-> {}, absent |-> {}, index |-> <<>>, name |-> {}, keys |-> {},
     texts |-> {}, descs |-> {}, meta_index |-> {}]

\* Any chapter file may exist or not, with well-formed and malformed keys;
\* its 'index' may be missing, its own or that of chapter 1.
BuildCorpus ==
    [exists |-> 1..NumSurahs,
     absent |-> 1..NumSurahs,
     index |-> [n \in 1..NumSurahs |-> {None, Some(index_str(n)), Some(index_str(1))}],
     name |-> {Some("Al-Fatiha")},
     keys |-> {<<"b">>, VerseKey(<<"1">>), VerseKey(<<"0", "1">>), VerseKey(<<"2">>),
               VerseKey(<<"x">>)},
     texts |-> {Str(<<1571, 1614, 1576>>)},
     descs |-> {EmptyMeta, FullMeta},
     meta_index |-> {TRUE}]

\* Chapter files with well-formed keys whose descriptor is complete, lacks
\* fields or is absent, and whose 'name' may be missing.
MetaCorpus ==
    [exists |-> 1..NumSurahs,
     absent |-> 1..NumSurahs,
     index |-> [n \in 1..NumSurahs |-> {Some(index_str(n))}],
     name |-> {None, Some("Al-Fatiha")},
     keys |-> {<<"b">>, VerseKey(<<"1">>), VerseKey(<<"2">>)},
     texts |-> {Str(<<1571, 1614, 1576>>)},
     descs |-> {EmptyMeta, FullMeta, PartialMeta},
     meta_index |-> BOOLEAN]

\* One chapter with well-formed keys and every 'juz' list of up to MaxJuz
\* entries.
LookupCorpus ==
    [exists |-> {1},
     absent |-> (1..NumSurahs) \ {1},
     index |-> [n \in 1..NumSurahs |-> {Some(index_str(n))}],
     name |-> {Some("Al-Fatiha")},
     keys |-> {VerseKey(<<"0">>), VerseKey(<<"1">>), VerseKey(<<"2">>), VerseKey(<<"3">>)},
     texts |-> {Str(<<1571, 1614, 1576>>)},
     descs |-> {[FullMeta EXCEPT !.juz = j] :
                   j \in {None} \cup {Some(l) : l \in SeqsUpTo(JuzEntries, MaxJuz)}},
     meta_index |-> {TRUE}]

\* ------------------------------------------------ state
\* ------------------------------------------------ inputs of analyze_primes
\* Alef; Alef, space, Alef; Ba, space, Ba.
PrimesTexts == {<<1575>>, <<1575, 32, 1575>>, <<1576, 32, 1576>>}

PrimesKeys ==
    {<<"b">>, VerseKey(<<"0">>), VerseKey(<<"1">>), VerseKey(<<"2">>), VerseKey(<<"x">>)}

DistinctKeys(m) == \A k, q \in 1..Len(m) : k # q => m[k].key # m[q].key

\* A chapter file: 'index' and 'count' may be missing, 'count' need not be
\* the size of the 'verse' map, whose keys are distinct.
PrimesFiles ==
    {[index |-> ix, count |-> c, verse |-> m] :
        ix \in {None} \cup {Some(index_str(n)) : n \in 1..NumSurahs},
        c \in {None} \cup {Some(k) : k \in 0..MaxKeys},
        m \in {v \in SeqsUpTo([key : PrimesKeys, text : PrimesTexts], MaxKeys) :
                  DistinctKeys(v)}}

\* ------------------------------------------------ inputs of analyze_concepts
\* Words around the stems of Erde, Allah and Blut: the bare stem, the stem
\* after one and after two-part prefixes, after a letter that is no prefix,
\* before a further letter, and a prefix that is itself the start of a stem.
ConceptWords ==
    {<<1575, 1585, 1590>>,
     <<1608, 1575, 1585, 1590>>,
     <<1580, 1608, 1575, 1585, 1590>>,
     <<1575, 1604, 1575, 1585, 1590>>,
     <<1608, 1575, 1604, 1575, 1585, 1590>>,
     <<1575, 1585, 1590, 1610>>,
     <<1575, 1604, 1604, 1607>>,
     <<1604, 1604, 1607>>,
     <<1608, 1575, 1604, 1604, 1607>>,
     <<1583, 1605>>,
     <<1583, 1605, 1575, 1569>>,
     <<1608, 1608, 1575, 1585, 1590>>}

\* The rows of the table: one word each, or two words and a space.
ConceptTexts ==
    ConceptWords
        \cup {<<1608, 1575, 1585, 1590, 32, 1580, 1608, 1575, 1585, 1590>>}

\* ------------------------------------------------ inputs of the scenario
\* bismi llahi and ar-rahmani, with their diacritics
BismiAllahi ==
    <<1576, 1616, 1587, 1618, 1605, 1616, 32, 1575, 1604, 1604, 1614, 1617, 1607, 1616>>
ArRahmani == <<1575, 1604, 1585, 1614, 1617, 1581, 1618, 1605, 1614, 1606, 1616>>

\* The two verses as written and without their diacritics.
ScenarioTexts ==
    {BismiAllahi, ArRahmani,
     <<1576, 1587, 1605, 32, 1575, 1604, 1604, 1607>>,
     <<1575, 1604, 1585, 1581, 1605, 1606>>}

\* ------------------------------------------------ inputs of the two builds
\* A chapter file: its own 'index', which need not be its file number, the
\* keys of its 'verse' map in order, and the text of its verses.
OrderKeys == {<<"b">>, VerseKey(<<"1">>), VerseKey(<<"2">>)}

OrderTexts == {<<1576>>, <<1575, 1604>>}

ChapterFiles ==
    [index : 1..NumSurahs,
     keys : {m \in SeqsUpTo(OrderKeys, MaxKeys) :
                \A k, q \in 1..Len(m) : k # q => m[k] # m[q]},
     text : OrderTexts]

VARIABLES
    v_text,        \* the argument of normalize_text
    norm_text,     \* normalize_text(v_text)
    norm_again,    \* normalize_text(norm_text)
    npc,           \* "start", "once", "twice"; "off" outside SpecNormalize
    corpus,        \* what the run may find on disk
    bpc,           \* build_dataframe: "meta", "loop", "verses", "done", "raised"
    i,             \* the counter of `for i in range(1, 115)`
    surah_idx,     \* int(data.get('index')) of the open chapter file
    surah_name_en, \* data.get('name')
    smeta,         \* meta_dict.get(index_str, {})
    seen_keys,     \* the keys of verses_dict iterated so far, in order
    all_verses,    \* the rows appended so far
    first_row,     \* history: the position in all_verses of the open chapter's first row
    df,            \* the sorted table
    exc,           \* the exception that ended the run, "" when none
    verses,        \* the analyzers' input: the raw verse texts of one chapter
    text_normalized, \* the chapter's column of the table
    apc,           \* "build", "primes", "surah", "letters", "words", "done"
    total_words,   \* analyze_primes: the accumulators of the chapter
    total_letters,
    total_abjad,
    surah_report,  \* analyze_surah: total_letters and the sorted entries
    letters_report, \* analyze_letters
    words_report   \* analyze_words

normVars == <<v_text, norm_text, norm_again, npc>>
buildVars == <<corpus, bpc, i, surah_idx, surah_name_en, smeta, seen_keys,
               all_verses, first_row, df, exc>>
analyzeVars == <<verses, text_normalized, apc, total_words, total_letters,
                 total_abjad, surah_report, letters_report, words_report>>

VARIABLES
    starts_report, \* analyze_start_letters
    prime_n,       \* is_prime: the argument n
    prime_i,       \* is_prime: the trial divisor i
    prime_ret,     \* is_prime: the returned value, <<>> until it returns
    prime_pc,      \* is_prime: "entry", "loop", "returned"
    data,          \* analyze_primes: the open chapter file
    vpos,          \* analyze_primes: verses_dict.items() iterated so far
    verse_count,   \* analyze_primes: int(data.get('count', 0))
    verse_log,     \* history: every processed verse with its metrics and flags
    verse_details, \* analyze_primes: the verses with at least one flag
    surah_result,  \* analyze_primes: the chapter's entry of results["surahs"]
    primes_pc,     \* analyze_primes: "open", "verses", "done", "raised"
    all_words,     \* analyze_concepts: the flattened tokens
    concept_pos,   \* analyze_concepts: the concepts of CONCEPT_MAP scanned so far
    results,       \* analyze_concepts: results[concept] = total and forms
    concept_pc,    \* analyze_concepts: "flatten", "scan", "done"
    files,         \* the chapter files of two builds of one corpus
    rows_ordered,  \* all_verses of the build that takes the chapters in order
    rows_any,      \* all_verses of a build that takes them in any order
    taken_ordered, \* chapters the ordered build has finished
    taken_any,     \* rows each chapter has appended in the other build
    table_ordered, \* the sorted table of the ordered build
    table_any,     \* the sorted table of the other build
    order_pc       \* "build", "sorted", "raised"

primeVars == <<prime_n, prime_i, prime_ret, prime_pc>>
primesVars == <<data, vpos, verse_count, verse_log, verse_details, surah_result,
                primes_pc>>
conceptVars == <<all_words, concept_pos, results, concept_pc>>
orderVars == <<files, rows_ordered, rows_any, taken_ordered, taken_any,
               table_ordered, table_any, order_pc>>
moreVars == <<starts_report, primeVars, primesVars, conceptVars, orderVars>>
vars == <<normVars, buildVars, analyzeVars, moreVars>>

Range(s) == {s[k] : k \in 1..Len(s)}

NormIdle ==
    /\ v_text = PyNone
    /\ norm_text = PyNone
    /\ norm_again = PyNone
    /\ npc = "off"

BuildIdle ==
    /\ corpus = NoCorpus
    /\ bpc = "off"
    /\ i = 0
    /\ surah_idx = 0
    /\ surah_name_en = None
    /\ smeta = EmptyMeta
    /\ seen_keys = <<>>
    /\ all_verses = <<>>
    /\ first_row = 0
    /\ df = <<>>
    /\ exc = ""

AnalyzeIdle ==
    /\ verses = <<>>
    /\ text_normalized = <<>>
    /\ apc = "off"
    /\ total_words = 0
    /\ total_letters = 0
    /\ total_abjad = 0
    /\ surah_report = NoReport
    /\ letters_report = NoReport
    /\ words_report = NoReport

PrimeIdle ==
    /\ prime_n = 0
    /\ prime_i = 0
    /\ prime_ret = <<>>
    /\ prime_pc = "off"

PrimesIdle ==
    /\ data = <<>>
    /\ vpos = 0
    /\ verse_count = 0
    /\ verse_log = <<>>
    /\ verse_details = <<>>
    /\ surah_result = <<>>
    /\ primes_pc = "off"

ConceptIdle ==
    /\ all_words = <<>>
    /\ concept_pos = 0
    /\ results = <<>>
    /\ concept_pc = "off"

OrderIdle ==
    /\ files = <<>>
    /\ rows_ordered = <<>>
    /\ rows_any = <<>>
    /\ taken_ordered = 0
    /\ taken_any = <<>>
    /\ table_ordered = <<>>
    /\ table_any = <<>>
    /\ order_pc = "off"

MoreIdle ==
    /\ starts_report = NoReport
    /\ PrimeIdle
    /\ PrimesIdle
    /\ ConceptIdle
    /\ OrderIdle

\* ------------------------------------------------ SpecNormalize
InitNormalize ==
    /\ MoreIdle
    /\ v_text \in PyValues
    /\ norm_text = PyNone
    /\ norm_again = PyNone
    /\ npc = "start"
    /\ BuildIdle
    /\ AnalyzeIdle

\* norm_text = normalize_text(v_text)
Normalize ==
    /\ npc = "start"
    /\ norm_text' = normalize_text(v_text)
    /\ npc' = "once"
    /\ UNCHANGED <<moreVars, v_text, norm_again, buildVars, analyzeVars>>

\* the normalized text is normalized again
Renormalize ==
    /\ npc = "once"
    /\ norm_again' = normalize_text(norm_text)
    /\ npc' = "twice"
    /\ UNCHANGED <<moreVars, v_text, norm_text, buildVars, analyzeVars>>

NextNormalize == Normalize \/ Renormalize

SpecNormalize == InitNormalize /\ [][NextNormalize]_vars

\* ------------------------------------------------ build_dataframe
InitBuildWith(c) ==
    /\ MoreIdle
    /\ NormIdle
    /\ AnalyzeIdle
    /\ corpus = c
    /\ bpc = "meta"
    /\ i = 0
    /\ surah_idx = 0
    /\ surah_name_en = None
    /\ smeta = EmptyMeta
    /\ seen_keys = <<>>
    /\ all_verses = <<>>
    /\ first_row = 0
    /\ df = <<>>
    /\ exc = ""

\* surah_meta = json.load(f); meta_dict = {s['index']: s for s in surah_meta}
\* A descriptor without 'index' raises KeyError.
LoadMetadata ==
    /\ bpc = "meta"
    /\ \E has_index \in corpus.meta_index :
           IF has_index
           THEN bpc' = "loop" /\ i' = 1 /\ exc' = exc
           ELSE bpc' = "raised" /\ i' = i /\ exc' = "KeyError"
    /\ UNCHANGED <<moreVars, normVars, analyzeVars, corpus, surah_idx, surah_name_en, smeta, seen_keys,
                   all_verses, first_row, df>>

\* if not file_path.exists(): continue
SkipMissingFile ==
    /\ bpc = "loop"
    /\ i <= NumSurahs
    /\ i \in corpus.absent
    /\ i' = i + 1
    /\ UNCHANGED <<moreVars, normVars, analyzeVars, corpus, bpc, surah_idx, surah_name_en, smeta,
                   seen_keys, all_verses, first_row, df, exc>>

\* data = json.load(f); surah_name_en = data.get('name');
\* surah_idx = int(data.get('index')); smeta = meta_dict.get(index_str, {})
\* int(None) raises TypeError.  The descriptor is the one filed under the
\* loop counter, whatever the file's own 'index' says.
OpenSurah ==
    /\ bpc = "loop"
    /\ i <= NumSurahs
    /\ i \in corpus.exists
    /\ \E index \in corpus.index[i], name \in corpus.name, meta \in corpus.descs :
           IF index = None
           THEN /\ bpc' = "raised"
                /\ exc' = "TypeError"
                /\ surah_name_en' = name
                /\ UNCHANGED <<surah_idx, smeta>>
           ELSE /\ bpc' = "verses"
                /\ exc' = exc
                /\ surah_name_en' = name
                /\ surah_idx' = int_value(index[1])
                /\ smeta' = meta
    /\ seen_keys' = <<>>
    /\ first_row' = Len(all_verses) + 1
    /\ UNCHANGED <<moreVars, normVars, analyzeVars, corpus, i, all_verses, df>>

\* One iteration of `for v_key, v_text in verses_dict.items()`.
ProcessVerse ==
    /\ bpc = "verses"
    /\ Len(seen_keys) < MaxKeys
    /\ \E v_key \in corpus.keys \ Range(seen_keys), text \in corpus.texts :
           /\ seen_keys' = Append(seen_keys, v_key)
           /\ IF ~startswith_verse(v_key)
              THEN UNCHANGED <<bpc, exc, all_verses>>
              ELSE IF int_raises(replace_verse(v_key))
              THEN bpc' = "raised" /\ exc' = "ValueError" /\ UNCHANGED all_verses
              ELSE /\ all_verses' =
                         Append(all_verses,
                                make_row(surah_idx, surah_name_en, smeta,
                                         int_value(replace_verse(v_key)), text))
                   /\ UNCHANGED <<bpc, exc>>
    /\ UNCHANGED <<moreVars, normVars, analyzeVars, corpus, i, surah_idx, surah_name_en, smeta, first_row, df>>

\* verses_dict is exhausted: the next chapter
EndSurah ==
    /\ bpc = "verses"
    /\ bpc' = "loop"
    /\ i' = i + 1
    /\ surah_idx' = 0
    /\ surah_name_en' = None
    /\ smeta' = EmptyMeta
    /\ seen_keys' = <<>>
    /\ first_row' = 0
    /\ UNCHANGED <<moreVars, normVars, analyzeVars, corpus, all_verses, df, exc>>

\* df = pd.DataFrame(all_verses); df = df.sort_values(by=[...]); save.
\* A frame built from no rows has no columns: sort_values raises KeyError.
SortAndSave ==
    /\ bpc = "loop"
    /\ i = NumSurahs + 1
    /\ IF all_verses = <<>>
       THEN bpc' = "raised" /\ exc' = "KeyError" /\ df' = df
       ELSE bpc' = "done" /\ exc' = exc /\ df' = sort_values(all_verses)
    /\ UNCHANGED <<moreVars, normVars, analyzeVars, corpus, i, surah_idx, surah_name_en, smeta,
                   seen_keys, all_verses, first_row>>

NextBuild ==
    \/ LoadMetadata
    \/ SkipMissingFile
    \/ OpenSurah
    \/ ProcessVerse
    \/ EndSurah
    \/ SortAndSave

InitBuild == InitBuildWith(BuildCorpus)
SpecBuild == InitBuild /\ [][NextBuild]_vars

InitMeta == InitBuildWith(MetaCorpus)
SpecMeta == InitMeta /\ [][NextBuild]_vars

InitLookup == InitBuildWith(LookupCorpus)
SpecLookup == InitLookup /\ [][NextBuild]_vars

\* ------------------------------------------------ the analyzers
\* One chapter's verse texts are read by build_dataframe into the table and
\* by analyze_primes from the chapter file; analyze_surah, analyze_letters
\* and analyze_words then read the table.
InitAnalyze ==
    /\ MoreIdle
    /\ NormIdle
    /\ BuildIdle
    /\ verses \in ChapterTexts
    /\ text_normalized = <<>>
    /\ apc = "build"
    /\ total_words = 0
    /\ total_letters = 0
    /\ total_abjad = 0
    /\ surah_report = NoReport
    /\ letters_report = NoReport
    /\ words_report = NoReport

\* build_dataframe: 'text_normalized': normalize_text(v_text) of every verse
BuildRecords ==
    /\ apc = "build"
    /\ text_normalized' =
           [k \in 1..Len(verses) |-> normalize_text(Str(verses[k])).s]
    /\ apc' = "primes"
    /\ UNCHANGED <<moreVars, normVars, buildVars, verses, total_words, total_letters,
                   total_abjad, surah_report, letters_report, words_report>>

\* analyze_primes: the chapter's loop over verses_dict, which adds each
\* verse's w_count, l_count and abjad_val to the chapter's totals
PrimesChapter ==
    /\ apc = "primes"
    /\ LET norm(k) == normalize_text(Str(verses[k])).s
       IN  /\ total_words' = sum_seq([k \in 1..Len(verses) |-> w_count(norm(k))])
           /\ total_letters' = sum_seq([k \in 1..Len(verses) |-> l_count(norm(k))])
           /\ total_abjad' =
                  sum_seq([k \in 1..Len(verses) |-> calculate_abjad_value(verses[k])])
    /\ apc' = "surah"
    /\ UNCHANGED <<moreVars, normVars, buildVars, verses, text_normalized, surah_report,
                   letters_report, words_report>>

\* analyze_surah, which returns early when the table has no row of the
\* chapter
AnalyzeSurah ==
    /\ apc = "surah"
    /\ surah_report' =
           IF text_normalized = <<>> THEN NoReport
           ELSE surah_frequency(text_normalized)
    /\ apc' = "letters"
    /\ UNCHANGED <<moreVars, normVars, buildVars, verses, text_normalized, total_words,
                   total_letters, total_abjad, letters_report, words_report>>

\* analyze_letters
AnalyzeLetters ==
    /\ apc = "letters"
    /\ letters_report' = letter_frequency(text_normalized)
    /\ apc' = "words"
    /\ UNCHANGED <<moreVars, normVars, buildVars, verses, text_normalized, total_words,
                   total_letters, total_abjad, surah_report, words_report>>

\* analyze_words
AnalyzeWords ==
    /\ apc = "words"
    /\ words_report' = word_frequency(text_normalized)
    /\ apc' = "done"
    /\ UNCHANGED <<moreVars, normVars, buildVars, verses, text_normalized, total_words,
                   total_letters, total_abjad, surah_report, letters_report>>

\* analyze_start_letters
AnalyzeStartLetters ==
    /\ apc = "done"
    /\ starts_report' = start_letter_frequency(text_normalized)
    /\ apc' = "finished"
    /\ UNCHANGED <<normVars, buildVars, verses, text_normalized, total_words,
                   total_letters, total_abjad, surah_report, letters_report,
                   words_report, primeVars, primesVars, conceptVars, orderVars>>

NextAnalyze ==
    \/ BuildRecords
    \/ PrimesChapter
    \/ AnalyzeSurah
    \/ AnalyzeLetters
    \/ AnalyzeWords
    \/ AnalyzeStartLetters

SpecAnalyze == InitAnalyze /\ [][NextAnalyze]_vars

\* ------------------------------------------------ SpecIsPrime
\* One call of is_prime, a step per statement of its loop.
InitIsPrime ==
    /\ NormIdle
    /\ BuildIdle
    /\ AnalyzeIdle
    /\ starts_report = NoReport
    /\ PrimesIdle
    /\ ConceptIdle
    /\ OrderIdle
    /\ prime_n \in 0..MaxN
    /\ prime_i = 0
    /\ prime_ret = <<>>
    /\ prime_pc = "entry"

\* the three guards before the loop, and i = 5
PrimeEntry ==
    /\ prime_pc = "entry"
    /\ IF prime_n <= 1
       THEN prime_ret' = <<FALSE>> /\ prime_pc' = "returned" /\ prime_i' = prime_i
       ELSE IF prime_n <= 3
       THEN prime_ret' = <<TRUE>> /\ prime_pc' = "returned" /\ prime_i' = prime_i
       ELSE IF prime_n % 2 = 0 \/ prime_n % 3 = 0
       THEN prime_ret' = <<FALSE>> /\ prime_pc' = "returned" /\ prime_i' = prime_i
       ELSE prime_ret' = prime_ret /\ prime_pc' = "loop" /\ prime_i' = 5
    /\ UNCHANGED <<normVars, buildVars, analyzeVars, starts_report, primesVars,
                   conceptVars, orderVars, prime_n>>

\* one turn of the while loop
PrimeLoop ==
    /\ prime_pc = "loop"
    /\ loop_continues(prime_i, prime_n)
    /\ IF loop_divides(prime_i, prime_n)
       THEN prime_ret' = <<FALSE>> /\ prime_pc' = "returned" /\ prime_i' = prime_i
       ELSE prime_ret' = prime_ret /\ prime_pc' = "loop" /\ prime_i' = prime_i + 6
    /\ UNCHANGED <<normVars, buildVars, analyzeVars, starts_report, primesVars,
                   conceptVars, orderVars, prime_n>>

\* the loop condition fails: return True
PrimeExit ==
    /\ prime_pc = "loop"
    /\ ~loop_continues(prime_i, prime_n)
    /\ prime_ret' = <<TRUE>>
    /\ prime_pc' = "returned"
    /\ UNCHANGED <<normVars, buildVars, analyzeVars, starts_report, primesVars,
                   conceptVars, orderVars, prime_n, prime_i>>

NextIsPrime ==
    \/ PrimeEntry
    \/ PrimeLoop
    \/ PrimeExit

SpecIsPrime == InitIsPrime /\ [][NextIsPrime]_vars

\* The call runs on: a single thread with nothing to wait for.
SpecIsPrimeFair == SpecIsPrime /\ WF_vars(NextIsPrime)

\* ------------------------------------------------ SpecPrimes
\* analyze_primes on one chapter file: the body of its loop over the files.
primesFrame ==
    <<normVars, corpus, bpc, i, surah_name_en, smeta, seen_keys, all_verses,
      first_row, df, verses, text_normalized, apc, surah_report, letters_report,
      words_report, starts_report, primeVars, conceptVars, orderVars>>

InitPrimes ==
    /\ NormIdle
    /\ BuildIdle
    /\ AnalyzeIdle
    /\ starts_report = NoReport
    /\ PrimeIdle
    /\ ConceptIdle
    /\ OrderIdle
    /\ data \in PrimesFiles
    /\ vpos = 0
    /\ verse_count = 0
    /\ verse_log = <<>>
    /\ verse_details = <<>>
    /\ surah_result = <<>>
    /\ primes_pc = "open"

\* surah_idx = int(data.get('index')); verse_count = int(data.get('count', 0));
\* the totals start at 0.  int(None) raises TypeError.
OpenChapter ==
    /\ primes_pc = "open"
    /\ IF data.index = None
       THEN /\ primes_pc' = "raised"
            /\ exc' = "TypeError"
            /\ UNCHANGED <<surah_idx, verse_count>>
       ELSE /\ primes_pc' = "verses"
            /\ exc' = exc
            /\ surah_idx' = int_value(data.index[1])
            /\ verse_count' = IF data.count = None THEN 0 ELSE data.count[1]
    /\ UNCHANGED <<primesFrame, total_words, total_letters, total_abjad, data,
                   vpos, verse_log, verse_details, surah_result>>

\* One iteration of `for v_key, v_text in verses_dict.items()`.
PrimesVerse ==
    /\ primes_pc = "verses"
    /\ vpos < Len(data.verse)
    /\ vpos' = vpos + 1
    /\ LET v_key == data.verse[vpos + 1].key
           text == data.verse[vpos + 1].text
           verse_num == int_value(replace_verse(v_key))
           norm == normalize_text(Str(text)).s
           w == w_count(norm)
           l == l_count(norm)
           abjad_val == calculate_abjad_value(text)
           found == verse_primes(verse_num, w, l, abjad_val)
           entry == [verse_index |-> verse_num,
                     metrics |-> [word_count |-> w, letter_count |-> l,
                                  abjad_value |-> abjad_val],
                     primes_found |-> found]
       IN  IF ~startswith_verse(v_key)
           THEN UNCHANGED <<primes_pc, exc, total_words, total_letters, total_abjad,
                            verse_log, verse_details>>
           ELSE IF int_raises(replace_verse(v_key))
           THEN /\ primes_pc' = "raised"
                /\ exc' = "ValueError"
                /\ UNCHANGED <<total_words, total_letters, total_abjad, verse_log,
                               verse_details>>
           ELSE /\ total_words' = total_words + w
                /\ total_letters' = total_letters + l
                /\ total_abjad' = total_abjad + abjad_val
                /\ verse_log' = Append(verse_log, entry)
                /\ verse_details' = IF found # <<>> THEN Append(verse_details, entry)
                                    ELSE verse_details
                /\ UNCHANGED <<primes_pc, exc>>
    /\ UNCHANGED <<primesFrame, surah_idx, data, verse_count, surah_result>>

\* After the loop: the chapter's flags and its entry of results["surahs"].
PrimesSurah ==
    /\ primes_pc = "verses"
    /\ vpos = Len(data.verse)
    /\ surah_result' =
           [index |-> surah_idx,
            metrics |-> [verse_count |-> verse_count,
                         total_word_count |-> total_words,
                         total_letter_count |-> total_letters,
                         total_abjad_value |-> total_abjad],
            primes_found |-> surah_primes(surah_idx, verse_count, total_words,
                                          total_letters, total_abjad),
            prime_verses |-> verse_details]
    /\ primes_pc' = "done"
    /\ UNCHANGED <<primesFrame, surah_idx, exc, total_words, total_letters,
                   total_abjad, data, vpos, verse_count, verse_log, verse_details>>

NextPrimes ==
    \/ OpenChapter
    \/ PrimesVerse
    \/ PrimesSurah

SpecPrimes == InitPrimes /\ [][NextPrimes]_vars

\* ------------------------------------------------ SpecConcepts
conceptFrame ==
    <<normVars, buildVars, verses, apc, total_words, total_letters, total_abjad,
      surah_report, letters_report, words_report, starts_report, primeVars,
      primesVars, orderVars>>

InitConcepts ==
    /\ NormIdle
    /\ BuildIdle
    /\ verses = <<>>
    /\ text_normalized \in SeqsUpTo(ConceptTexts, MaxRecords)
    /\ apc = "off"
    /\ total_words = 0
    /\ total_letters = 0
    /\ total_abjad = 0
    /\ surah_report = NoReport
    /\ letters_report = NoReport
    /\ words_report = NoReport
    /\ starts_report = NoReport
    /\ PrimeIdle
    /\ PrimesIdle
    /\ OrderIdle
    /\ all_words = <<>>
    /\ concept_pos = 0
    /\ results = <<>>
    /\ concept_pc = "flatten"

\* the loop over df['text_normalized'] that fills all_words
FlattenWords ==
    /\ concept_pc = "flatten"
    /\ all_words' = flatten_words(text_normalized)
    /\ concept_pc' = "scan"
    /\ UNCHANGED <<conceptFrame, text_normalized, concept_pos, results>>

\* One iteration of `for concept, stems in CONCEPT_MAP.items()`.
ScanConcept ==
    /\ concept_pc = "scan"
    /\ concept_pos < Len(CONCEPT_MAP)
    /\ concept_pos' = concept_pos + 1
    /\ results' = Append(results, scan_concept(all_words, CONCEPT_MAP[concept_pos + 1]))
    /\ UNCHANGED <<conceptFrame, text_normalized, all_words, concept_pc>>

\* the loop is over: the report is written
ConceptsDone ==
    /\ concept_pc = "scan"
    /\ concept_pos = Len(CONCEPT_MAP)
    /\ concept_pc' = "done"
    /\ UNCHANGED <<conceptFrame, text_normalized, all_words, concept_pos, results>>

NextConcepts ==
    \/ FlattenWords
    \/ ScanConcept
    \/ ConceptsDone

SpecConcepts == InitConcepts /\ [][NextConcepts]_vars

\* ------------------------------------------------ SpecScenario
\* The analyzers over a chapter made of the scenario's verses.
InitScenario ==
    /\ NormIdle
    /\ BuildIdle
    /\ MoreIdle
    /\ verses \in SeqsUpTo(ScenarioTexts, MaxRecords)
    /\ text_normalized = <<>>
    /\ apc = "build"
    /\ total_words = 0
    /\ total_letters = 0
    /\ total_abjad = 0
    /\ surah_report = NoReport
    /\ letters_report = NoReport
    /\ words_report = NoReport

SpecScenario == InitScenario /\ [][NextAnalyze]_vars

\* ------------------------------------------------ SpecOrder
\* Two builds of the same chapter files: one takes the chapters in the order
\* of `for i in range(1, 115)`, the other takes the next key of any chapter,
\* so that its chapters come in any order or interleaved.  Each sorts its
\* rows at the end.
orderFrame ==
    <<normVars, buildVars, analyzeVars, starts_report, primeVars, primesVars,
      conceptVars>>

\* The rows the k-th key of chapter c's file yields: none when the key is
\* skipped.  The descriptor is the one filed under the chapter's number.
key_rows(c, k) ==
    LET v_key == files[c].keys[k]
    IN  IF ~startswith_verse(v_key) THEN <<>>
        ELSE <<make_row(files[c].index, Some("Al-Fatiha"), FullMeta,
                        int_value(replace_verse(v_key)), Str(files[c].text))>>

\* The rows of the first k keys of chapter c's file.
RECURSIVE chapter_rows(_, _)
chapter_rows(c, k) ==
    IF k = 0 THEN <<>> ELSE chapter_rows(c, k - 1) \o key_rows(c, k)

InitOrder ==
    /\ NormIdle
    /\ BuildIdle
    /\ AnalyzeIdle
    /\ starts_report = NoReport
    /\ PrimeIdle
    /\ PrimesIdle
    /\ ConceptIdle
    /\ files \in [1..NumSurahs -> ChapterFiles]
    /\ rows_ordered = <<>>
    /\ rows_any = <<>>
    /\ taken_ordered = 0
    /\ taken_any = [c \in 1..NumSurahs |-> 0]
    /\ table_ordered = <<>>
    /\ table_any = <<>>
    /\ order_pc = "build"

\* The loop body for the next chapter in order.
BuildNextInOrder ==
    /\ order_pc = "build"
    /\ taken_ordered < NumSurahs
    /\ taken_ordered' = taken_ordered + 1
    /\ rows_ordered' =
           rows_ordered
               \o chapter_rows(taken_ordered + 1, Len(files[taken_ordered + 1].keys))
    /\ UNCHANGED <<orderFrame, files, rows_any, taken_any, table_ordered,
                   table_any, order_pc>>

\* The next key of any chapter.
BuildKeyAnyOrder ==
    /\ order_pc = "build"
    /\ \E c \in 1..NumSurahs :
           /\ taken_any[c] < Len(files[c].keys)
           /\ taken_any' = [taken_any EXCEPT ![c] = @ + 1]
           /\ rows_any' = rows_any \o key_rows(c, taken_any[c] + 1)
    /\ UNCHANGED <<orderFrame, files, rows_ordered, taken_ordered, table_ordered,
                   table_any, order_pc>>

\* df.sort_values(by=['surah_index', 'verse_index']) in both builds; a
\* table without rows has no such columns and the sort raises KeyError.
SortBoth ==
    /\ order_pc = "build"
    /\ taken_ordered = NumSurahs
    /\ \A c \in 1..NumSurahs : taken_any[c] = Len(files[c].keys)
    /\ IF rows_ordered = <<>>
       THEN order_pc' = "raised" /\ UNCHANGED <<table_ordered, table_any>>
       ELSE /\ table_ordered' = sort_values(rows_ordered)
            /\ table_any' = sort_values(rows_any)
            /\ order_pc' = "sorted"
    /\ UNCHANGED <<orderFrame, files, rows_ordered, rows_any, taken_ordered,
                   taken_any>>

NextOrder ==
    \/ BuildNextInOrder
    \/ BuildKeyAnyOrder
    \/ SortBoth

SpecOrder == InitOrder /\ [][NextOrder]_vars

\* ------------------------------------------------ claims on normalize_text
\* The codepoints the four rules name: the stripped ones, the mapped ones
\* and the canonical image of each mapped one.
Stripped == (1611..1631) \cup {1648, 1600}
MappedFrom == {1571, 1573, 1570, 1649, 1609, 1577}
ImageOf(c) == IF c = 1609 THEN 1610 ELSE IF c = 1577 THEN 1607 ELSE 1575

Chars(s) == {s[k] : k \in 1..Len(s)}
NotStripped(c) == c \notin Stripped

\* C1: normalize_text is idempotent, normalize_text(normalize_text(x)) =
\* normalize_text(x), and its output holds no stripped and no mapped-from
\* codepoint.
C1_Idempotent ==
    /\ npc = "twice" => norm_again = norm_text
    /\ npc # "start" => Chars(norm_text.s) \cap (Stripped \cup MappedFrom) = {}

C1_Witness ==
    /\ npc = "twice"
    /\ v_text.tag = "str"
    /\ Chars(v_text.s) \cap Stripped # {}
    /\ Chars(v_text.s) \cap MappedFrom # {}

\* C2: normalize_text changes nothing but what the four rules name: the
\* output is the input without its stripped characters, each remaining
\* character unchanged and in place, except that a mapped character is
\* replaced by its canonical image.
C2_OnlyRuleSetsAltered ==
    (npc # "start" /\ v_text.tag = "str") =>
        LET kept == SelectSeq(v_text.s, NotStripped)
            out == norm_text.s
        IN  /\ norm_text.tag = "str"
            /\ Len(out) = Len(kept)
            /\ \A k \in 1..Len(kept) :
                   out[k] = IF kept[k] \in MappedFrom THEN ImageOf(kept[k])
                            ELSE kept[k]

C2_Witness ==
    /\ npc = "once"
    /\ v_text.tag = "str"
    /\ Chars(v_text.s) \cap {1569, 1572, 1574, 32, 46, 1610} # {}
    /\ Chars(v_text.s) \cap (Stripped \cup MappedFrom) # {}

\* C3: normalize_text is total and length-non-increasing: it returns a str
\* for every argument, the empty str for a non-string one, and never a
\* longer str than its argument.
C3_TotalNonIncreasing ==
    npc # "start" =>
        /\ norm_text.tag = "str"
        /\ v_text.tag # "str" => norm_text.s = <<>>
        /\ Len(norm_text.s) <= Len(v_text.s)

C3_Witness ==
    /\ npc = "once"
    /\ v_text = PyNone
    /\ norm_text = Str(<<>>)

\* C4: the Abjad value is invariant under normalization:
\* calculate_abjad_value(normalize_text(x)) = calculate_abjad_value(x) for
\* every str x.
C4_ScoreInvariant ==
    (npc # "start" /\ v_text.tag = "str") =>
        calculate_abjad_value(norm_text.s) = calculate_abjad_value(v_text.s)

C4_Witness ==
    /\ npc = "once"
    /\ v_text.tag = "str"
    /\ 1577 \in Chars(v_text.s)
    /\ Chars(v_text.s) \cap Stripped # {}
    /\ calculate_abjad_value(norm_text.s) = 5

\* ------------------------------------------------ claims on build_dataframe
\* A key of the shape 'verse_' followed by an integer, and that integer.
WellFormedKey(v_key) ==
    /\ Len(v_key) >= 2
    /\ v_key[1] = "verse_"
    /\ \A k \in 2..Len(v_key) : v_key[k] \in DOMAIN DigitVal
KeyNumber(v_key) == int_value(Tail(v_key))

\* The rows of the chapter whose verses are being read.
ChapterRows == SubSeq(all_verses, first_row, Len(all_verses))

\* Whether a 'juz' entry's inclusive range holds a verse number.
Contains(j, verse_num) ==
    KeyNumber(j.verse.start) <= verse_num /\ verse_num <= KeyNumber(j.verse.end)

\* The index of the first entry of the list whose range holds the verse
\* number, None when there is none.
FirstContaining(juz, verse_num) ==
    IF \E p \in 1..Len(juz) : Contains(juz[p], verse_num)
    THEN LET p == CHOOSE p \in 1..Len(juz) :
                      /\ Contains(juz[p], verse_num)
                      /\ \A q \in 1..(p - 1) : ~Contains(juz[q], verse_num)
         IN  Some(int_value(juz[p].index))
    ELSE None

\* C5: every row's juz_index is the index of the first entry of the
\* chapter's juz list whose inclusive range holds the row's verse_index, and
\* None when no range holds it or the chapter has no juz list; the lookup
\* raises nothing (no run ends by an exception inside a chapter).
C5_DivisionLookup ==
    /\ bpc = "verses" =>
           \A k \in 1..Len(ChapterRows) :
               ChapterRows[k].juz_index =
                   IF smeta.juz = None THEN None
                   ELSE FirstContaining(smeta.juz[1], ChapterRows[k].verse_index)
    /\ bpc = "raised" => seen_keys = <<>>

\* A verse inside two ranges with different indices gets the first one
\* while another verse of the chapter is in no range.
C5_Witness ==
    /\ bpc = "verses"
    /\ smeta.juz # None
    /\ Len(smeta.juz[1]) = 2
    /\ smeta.juz[1][1].index # smeta.juz[1][2].index
    /\ \E k \in 1..Len(ChapterRows) :
           /\ Contains(smeta.juz[1][1], ChapterRows[k].verse_index)
           /\ Contains(smeta.juz[1][2], ChapterRows[k].verse_index)
           /\ ChapterRows[k].juz_index = Some(int_value(smeta.juz[1][1].index))
    /\ \E k \in 1..Len(ChapterRows) : ChapterRows[k].juz_index = None

\* C6: a key that is not 'verse_' followed by an integer is skipped without
\* error: the chapter's rows are those of exactly its well-formed keys, and
\* the run never ends by the ValueError of a malformed key.
C6_MalformedKeysSkipped ==
    /\ exc # "ValueError"
    /\ bpc = "verses" =>
           LET wf == SelectSeq(seen_keys, WellFormedKey)
           IN  /\ Len(ChapterRows) = Len(wf)
               /\ \A k \in 1..Len(wf) : ChapterRows[k].verse_index = KeyNumber(wf[k])

C8_SortedNoDuplicates ==
    bpc = "done" =>
        /\ \A k \in 1..(Len(df) - 1) : RowLE(df[k], df[k + 1])
        /\ \A k, m \in 1..Len(df) :
               (k # m) => <<df[k].surah_index, df[k].verse_index>>
                              # <<df[m].surah_index, df[m].verse_index>>

\* ------------------------------------------------ claims on the analyzers
\* The position of the first occurrence of x in a scan, and the number of
\* its occurrences.
FirstPos(x, scan) == CHOOSE k \in 1..Len(scan) :
                         scan[k] = x /\ \A m \in 1..(k - 1) : scan[m] # x
Occurrences(x, scan) == Cardinality({k \in 1..Len(scan) : scan[k] = x})

\* The entries are in descending order of count, entries of equal count in
\* the order of their first occurrence in the scan, and each entry's count
\* is the number of occurrences of its key.
DescendingStable(entries, scan) ==
    /\ \A k \in 1..Len(entries) :
           /\ Occurrences(entries[k].key, scan) > 0
           /\ entries[k].n = Occurrences(entries[k].key, scan)
    /\ \A k \in 1..(Len(entries) - 1) :
           \/ entries[k].n > entries[k + 1].n
           \/ /\ entries[k].n = entries[k + 1].n
              /\ FirstPos(entries[k].key, scan) < FirstPos(entries[k + 1].key, scan)

\* C9: the sum of the per-verse letter counts of analyze_primes equals the
\* letter count analyze_surah and analyze_letters compute over the chapter's
\* concatenated normalized text.
C9_SumInvariant ==
    (apc = "done" /\ verses # <<>>) =>
        /\ total_letters = surah_report.total
        /\ total_letters = letters_report.total

\* C10: the letter and word frequency tables are in descending order of
\* count, and entries of equal count are in the order in which they were
\* first encountered in the scan of the records.
C10_DescendingStable ==
    apc = "done" =>
        /\ DescendingStable(surah_report.entries, join(text_normalized))
        /\ DescendingStable(letters_report.entries, join(text_normalized))
        /\ DescendingStable(words_report.entries, tokenize(text_normalized))

\* Three letters, the first more frequent, the other two tied and first met
\* in the reverse of their codepoint order; two tied words likewise.
C10_Witness ==
    /\ apc = "done"
    /\ \E k \in 1..(Len(letters_report.entries) - 1) :
           /\ letters_report.entries[k].n = letters_report.entries[k + 1].n
           /\ letters_report.entries[k].key > letters_report.entries[k + 1].key
    /\ \E k \in 1..(Len(surah_report.entries) - 1) :
           surah_report.entries[k].n > surah_report.entries[k + 1].n
    /\ Len(words_report.entries) = 2
    /\ words_report.entries[1].n = words_report.entries[2].n

\* ------------------------------------------------ claims on is_prime
Divisors(n) == {d \in 2..(n - 1) : n % d = 0}

\* C14: every call of is_prime on a non-negative integer returns, and it
\* returns True exactly when n >= 2 and no d with 1 < d < n divides n.
C14_IsPrimeCorrect ==
    /\ [](prime_pc = "returned" =>
             prime_ret = <<(prime_n >= 2 /\ Divisors(prime_n) = {})>>)
    /\ <>(prime_pc = "returned")

\* The square of a prime that only the loop's second divisor catches.
C14_Witness ==
    /\ prime_pc = "returned"
    /\ prime_n = 49
    /\ prime_i = 5
    /\ prime_ret = <<FALSE>>

\* ------------------------------------------------ claims on analyze_primes
IsPrimeNumber(n) == n >= 2 /\ Divisors(n) = {}

NoRepeat(found) == Cardinality(Range(found)) = Len(found)

\* A verse's flags name exactly its prime metrics.
VerseFlagsRight(v) ==
    /\ Range(v.primes_found)
           \subseteq {"verse_index", "word_count", "letter_count", "abjad_value"}
    /\ NoRepeat(v.primes_found)
    /\ ("verse_index" \in Range(v.primes_found)) <=> IsPrimeNumber(v.verse_index)
    /\ ("word_count" \in Range(v.primes_found)) <=> IsPrimeNumber(v.metrics.word_count)
    /\ ("letter_count" \in Range(v.primes_found))
           <=> IsPrimeNumber(v.metrics.letter_count)
    /\ ("abjad_value" \in Range(v.primes_found))
           <=> IsPrimeNumber(v.metrics.abjad_value)

\* A chapter's flags name exactly its prime metrics.
ChapterFlagsRight(r) ==
    /\ Range(r.primes_found)
           \subseteq {"surah_index", "verse_count", "total_word_count",
                      "total_letter_count", "total_abjad_value"}
    /\ NoRepeat(r.primes_found)
    /\ ("surah_index" \in Range(r.primes_found)) <=> IsPrimeNumber(r.index)
    /\ ("verse_count" \in Range(r.primes_found))
           <=> IsPrimeNumber(r.metrics.verse_count)
    /\ ("total_word_count" \in Range(r.primes_found))
           <=> IsPrimeNumber(r.metrics.total_word_count)
    /\ ("total_letter_count" \in Range(r.primes_found))
           <=> IsPrimeNumber(r.metrics.total_letter_count)
    /\ ("total_abjad_value" \in Range(r.primes_found))
           <=> IsPrimeNumber(r.metrics.total_abjad_value)

\* C15: each flag of a verse and of a chapter is set exactly when its own
\* metric is prime, whatever the other metrics are, and every record, verse
\* or chapter, carries between zero and four flags.
C15_ZeroToFourFlags ==
    /\ \A k \in 1..Len(verse_log) :
           VerseFlagsRight(verse_log[k]) /\ Len(verse_log[k].primes_found) <= 4
    /\ primes_pc = "done" =>
           ChapterFlagsRight(surah_result) /\ Len(surah_result.primes_found) <= 4

\* C15, amended: each flag is set exactly when its own metric is prime; a
\* verse carries zero to four flags, a chapter zero to five, surah_index and
\* verse_count being two metrics of a chapter; prime_verses holds the verses
\* with at least one flag.
C15_IndependentFlags ==
    /\ \A k \in 1..Len(verse_log) :
           VerseFlagsRight(verse_log[k]) /\ Len(verse_log[k].primes_found) <= 4
    /\ verse_details = SelectSeq(verse_log, HasFlags)
    /\ primes_pc = "done" =>
           /\ ChapterFlagsRight(surah_result)
           /\ Len(surah_result.primes_found) <= 5
           /\ surah_result.prime_verses = verse_details

\* A chapter with all five flags, one verse of which has no flag and the
\* other all four.
C15_Witness ==
    /\ primes_pc = "done"
    /\ Len(surah_result.primes_found) = 5
    /\ \E k \in 1..Len(verse_log) : verse_log[k].primes_found = <<>>
    /\ \E k \in 1..Len(verse_log) : Len(verse_log[k].primes_found) = 4

\* C18: the chapter's verse_count metric, and the flag derived from it,
\* is the number of verse entries of the chapter that went into the word,
\* letter and abjad totals.
C18_VerseCountIsProcessed ==
    primes_pc = "done" =>
        /\ surah_result.metrics.verse_count = Len(verse_log)
        /\ ("verse_count" \in Range(surah_result.primes_found))
               <=> IsPrimeNumber(Len(verse_log))

\* ------------------------------------------------ claims on an empty scope
\* A report over a zero total holds no entry whose percentage is a division
\* by zero, and every entry it holds has percentage 0.
EmptyScopeOK(report) ==
    report.total = 0 =>
        \A k \in 1..Len(report.entries) :
            report.entries[k].pct.den # 0 /\ report.entries[k].pct.num = 0

\* C11: over records with zero countable letters or zero words the letter,
\* word and start-letter frequencies end without a division by zero, every
\* entry they emit has percentage 0, and the chapter aggregate of
\* analyze_primes over zero verses is all-zero.
C11_EmptyScopeAllZero ==
    /\ apc \in {"done", "finished"} =>
           EmptyScopeOK(letters_report) /\ EmptyScopeOK(words_report)
    /\ apc = "finished" => EmptyScopeOK(starts_report)
    /\ (primes_pc = "done" /\ verse_log = <<>>) =>
           /\ surah_result.metrics.verse_count = 0
           /\ surah_result.metrics.total_word_count = 0
           /\ surah_result.metrics.total_letter_count = 0
           /\ surah_result.metrics.total_abjad_value = 0

\* ------------------------------------------------ claims on analyze_words
\* The tokens of one text: its maximal runs of non-whitespace characters,
\* each as the pair of its first and last position.
Runs(t) ==
    {r \in (1..Len(t)) \X (1..Len(t)) :
        /\ r[1] <= r[2]
        /\ \A k \in r[1]..r[2] : t[k] \notin WHITESPACE
        /\ r[1] = 1 \/ t[r[1] - 1] \in WHITESPACE
        /\ r[2] = Len(t) \/ t[r[2] + 1] \in WHITESPACE}

TokensIn(t) == {SubSeq(t, r[1], r[2]) : r \in Runs(t)}

\* The number of tokens of the first m texts, and of those equal to w.
RECURSIVE TokenTotal(_, _)
TokenTotal(texts, m) ==
    IF m = 0 THEN 0
    ELSE TokenTotal(texts, m - 1) + Cardinality(Runs(texts[m]))

RECURSIVE TokenTally(_, _, _)
TokenTally(w, texts, m) ==
    IF m = 0 THEN 0
    ELSE TokenTally(w, texts, m - 1)
             + Cardinality({r \in Runs(texts[m]) :
                                SubSeq(texts[m], r[1], r[2]) = w})

\* C12: analyze_words counts exactly the tokens of each verse's
\* text_normalized taken separately: every counted word is a token of one
\* verse, its count is the number of its occurrences summed over the verses,
\* every token of a verse is counted, and total_words is the sum of the
\* per-verse word counts.
C12_PerRecordTokens ==
    apc \in {"done", "finished"} =>
        LET m == Len(text_normalized)
            entries == words_report.entries
        IN  /\ words_report.total = TokenTotal(text_normalized, m)
            /\ words_report.total = total_words
            /\ \A k \in 1..Len(entries) :
                   /\ \E q \in 1..m : entries[k].key \in TokensIn(text_normalized[q])
                   /\ entries[k].n = TokenTally(entries[k].key, text_normalized, m)
            /\ \A k, q \in 1..Len(entries) :
                   k # q => entries[k].key # entries[q].key
            /\ \A q \in 1..m : \A w \in TokensIn(text_normalized[q]) :
                   \E k \in 1..Len(entries) : entries[k].key = w

\* Two verses, the first ending and the second starting with a letter, and
\* a word that occurs in both.
C12_Witness ==
    /\ apc = "done"
    /\ Len(text_normalized) = 2
    /\ Len(text_normalized[1]) > 0
    /\ Len(text_normalized[2]) > 1
    /\ text_normalized[1][Len(text_normalized[1])] \notin WHITESPACE
    /\ text_normalized[2][1] \notin WHITESPACE
    /\ \E k \in 1..Len(words_report.entries) : words_report.entries[k].n = 2

\* ------------------------------------------------ claims on analyze_concepts
\* The token is a stem of the concept, bare or after one prefix of the list.
Explained(t, stems) ==
    \E p \in Range(PREFIXES) \cup {<<>>} : \E s \in Range(stems) : t = p \o s

\* C13: a token is counted for a concept exactly when it is p + s for a
\* stem s of the concept and a p that is empty or in the prefix list: the
\* concept's total is the number of such tokens, its forms are such tokens
\* with their numbers of occurrences, and no other token is counted.
C13_WholeTokenOnly ==
    \A k \in 1..Len(results) :
        LET stems == CONCEPT_MAP[k].stems
            hits == {m \in 1..Len(all_words) : Explained(all_words[m], stems)}
        IN  /\ results[k].concept = CONCEPT_MAP[k].concept
            /\ results[k].total = Cardinality(hits)
            /\ \A q \in 1..Len(results[k].forms) :
                   /\ Explained(results[k].forms[q].key, stems)
                   /\ results[k].forms[q].n
                          = Occurrences(results[k].forms[q].key, all_words)
            /\ \A m \in hits :
                   \E q \in 1..Len(results[k].forms) :
                       results[k].forms[q].key = all_words[m]

\* Stem Alef-Ra-Dad after Waw is counted for Erde, after Jeem-Waw it is not.
C13_Witness ==
    /\ concept_pc = "done"
    /\ all_words = <<<<1608, 1575, 1585, 1590>>, <<1580, 1608, 1575, 1585, 1590>>>>
    /\ results[4].concept = "Erde"
    /\ results[4].total = 1
    /\ results[4].forms = <<[key |-> <<1608, 1575, 1585, 1590>>, n |-> 1]>>

\* ------------------------------------------------ claims on the scenario
\* The 28 letters and the three hamza forms.
CanonicalLetters ==
    {1569, 1572, 1574, 1575, 1576} \cup (1578..1594) \cup (1601..1608) \cup {1610}

\* The letter report holds canonical letters only, and its counts sum to
\* its total, the number of letters of the normalized texts.
LettersAddUp(report, letters) ==
    /\ \A k \in 1..Len(report.entries) : report.entries[k].key \in CanonicalLetters
    /\ sum_values(report.entries) = report.total
    /\ report.total = letters

\* Every word of the report was counted once.
EachOnce(report) == \A k \in 1..Len(report.entries) : report.entries[k].n = 1

\* C16: over the chapter of the two verses bismi llahi and ar-rahmani the
\* word frequency holds exactly 4 distinct tokens, each with count 1, and
\* the letter frequency holds canonical letters only, whose counts sum to
\* the number of normalized letters.
C16_FourTokens ==
    (apc \in {"done", "finished"} /\ verses = <<BismiAllahi, ArRahmani>>) =>
        /\ Len(words_report.entries) = 4
        /\ EachOnce(words_report)
        /\ LettersAddUp(letters_report, 13)
        /\ LettersAddUp(surah_report, 13)

\* C16, amended: the word frequency holds exactly 3 distinct tokens, bsm,
\* allh and alrhmn, each with count 1; the letter frequency is as stated.
C16_ThreeTokens ==
    (apc \in {"done", "finished"} /\ verses = <<BismiAllahi, ArRahmani>>) =>
        /\ Len(words_report.entries) = 3
        /\ EachOnce(words_report)
        /\ {words_report.entries[k].key : k \in 1..3}
               = {<<1576, 1587, 1605>>, <<1575, 1604, 1604, 1607>>,
                  <<1575, 1604, 1585, 1581, 1605, 1606>>}
        /\ words_report.total = 3
        /\ LettersAddUp(letters_report, 13)
        /\ LettersAddUp(surah_report, 13)

C16_Witness ==
    /\ apc = "done"
    /\ verses = <<BismiAllahi, ArRahmani>>
    /\ text_normalized = <<<<1576, 1587, 1605, 32, 1575, 1604, 1604, 1607>>,
                           <<1575, 1604, 1585, 1581, 1605, 1606>>>>
    /\ Len(words_report.entries) = 3
    /\ Len(letters_report.entries) = 9

\* ------------------------------------------------ claims on the build order
\* C17: a build that takes the chapters in any order, or interleaved, and
\* then sorts by (surah_index, verse_index) yields the same table, row for
\* row and field for field, as the build that takes them in order.
C17_OrderIndependent ==
    order_pc = "sorted" => table_any = table_ordered

====
